---------------------------- MODULE Spec2Model ----------------------------
(***************************************************************************)
(* Model of the speech-delivery metrics engine of src/index.js:            *)
(* countFillerWords, detectRepetitions, detectPitch and getRawMetrics,     *)
(* and of the POST /analyze handler that calls it.                         *)
(*                                                                         *)
(* A JavaScript string is a sequence of pieces.  A piece is a whitespace   *)
(* character (" "), a sentence punctuation character (".") or a word, an   *)
(* unbroken run of other characters.  Adjacent non-whitespace pieces run   *)
(* together into one token, as their characters do in the string.          *)
(*                                                                         *)
(* Numbers are exact rationals held as scaled integers (the unit is in     *)
(* each name: wpm100 is wpm * 100); IEEE-754 rounding error is not         *)
(* modelled.                                                               *)
(***************************************************************************)
EXTENDS Integers, Sequences, FiniteSets, TLC

VARIABLES
    transcript,   \* argument: the transcript text, a sequence of pieces
    segments,     \* argument: sequence of [start, end], in 1/TimeScale seconds
    audioBuffer,  \* argument: Absent, or the clip (what the decoder and YIN make of it)
    spawnFails,   \* environment: TRUE when the transcoder cannot be started
    pc,           \* position of the running function
    words,        \* getRawMetrics: const words
    filler,       \* countFillerWords' result [total, breakdown], once computed
    wpm100,       \* getRawMetrics: let wpm, times 100, once computed
    rep,          \* detectRepetitions' result [phrases, score], once computed
    pitchInfo,    \* getRawMetrics: let pitchInfo
    scores,       \* the composite scores and labels, once computed
    ret,          \* what getRawMetrics returned or threw, once it ended
    log,          \* console.error calls, in order
    ff,           \* the child process: "none", "running", "errored", "closed"
    delivered,    \* bytes of PCM the child has written to stdout so far
    pcmChunks,    \* detectPitch: const pcmChunks (the byte length of each chunk)
    promise,      \* detectPitch's promise: [state, value]
    file,         \* POST /analyze: TRUE when req.file is there
    whisper,      \* environment: how the transcription call ends, "ok" or "fails"
    narrator,     \* environment: how the chat completion ends: "ok", "notjson", "fails"
    hpc,          \* position of the POST /analyze handler
    result,       \* POST /analyze: const result
    responses,    \* the responses sent for the request, in order
    narrated,     \* calls of openai.chat.completions.create made for the request
    other         \* a second, concurrent call of getRawMetrics: its locals and child

handlerVars == <<file, whisper, narrator, hpc, result, responses, narrated>>

vars == <<transcript, segments, audioBuffer, spawnFails, pc, words, filler, wpm100,
          rep, pitchInfo, scores, ret, log, ff, delivered, pcmChunks, promise,
          handlerVars, other>>

None == "None"

\* A local not yet assigned, and one holding v.
Unset == [set |-> FALSE]
Some(v) == [set |-> TRUE, v |-> v]

\* JavaScript values of the two types a pitch field takes.
JsNum(n) == [type |-> "number", n |-> n]
JsStr(str) == [type |-> "string", s |-> str]
NA == JsStr("N/A")

\* detectPitch's results: null, and {median, variation} (in 1/100 Hz).
NullPitch == [found |-> FALSE]
PitchOf(median, variation) == [found |-> TRUE, median |-> median, variation |-> variation]

\* audioBuffer not passed (undefined).
Absent == [present |-> FALSE]

-----------------------------------------------------------------------------
(* Strings *)

IsWs(p) == p = " "

IsPunct(p) == p = "."

\* String.prototype.toLowerCase, piece by piece (the upper-case words of the model).
LowerPiece(p) ==
    CASE p = "I" -> "i"
      [] p = "Um" -> "um"
      [] p = "Like" -> "like"
      [] p = "So" -> "so"
      [] OTHER -> p

toLowerCase(s) == [i \in 1..Len(s) |-> LowerPiece(s[i])]

RECURSIVE TrimStart(_)
TrimStart(s) == IF s # <<>> /\ IsWs(Head(s)) THEN TrimStart(Tail(s)) ELSE s

RECURSIVE TrimEnd(_)
TrimEnd(s) ==
    IF s # <<>> /\ IsWs(s[Len(s)]) THEN TrimEnd(SubSeq(s, 1, Len(s) - 1)) ELSE s

\* String.prototype.trim
trim(s) == TrimEnd(TrimStart(s))

\* s.split(/\s+/): the tokens between maximal runs of whitespace.  Leading
\* whitespace yields a first token '', trailing whitespace a last token '',
\* and the empty string yields [''].  The tokens of s[lo..hi] are computed by
\* halves: the last token of the left half and the first of the right half are
\* one token, or none at all when the cut falls inside a run of whitespace.
RECURSIVE SplitRange(_, _, _)
SplitRange(s, lo, hi) ==
    IF lo = hi THEN (IF IsWs(s[lo]) THEN <<"", "">> ELSE <<s[lo]>>)
    ELSE LET mid == (lo + hi) \div 2
             a == SplitRange(s, lo, mid)
             b == SplitRange(s, mid + 1, hi)
             front == SubSeq(a, 1, Len(a) - 1)
         IN  IF IsWs(s[mid]) /\ IsWs(s[mid + 1])
             THEN front \o Tail(b)
             ELSE front \o <<a[Len(a)] \o b[1]>> \o Tail(b)

SplitWs(s) == IF Len(s) = 0 THEN <<"">> ELSE SplitRange(s, 1, Len(s))

\* s.split(/[.!?]+/).filter(Boolean).length: the number of non-empty parts
\* between maximal runs of sentence punctuation.
SentenceCount(s) ==
    Cardinality({i \in 1..Len(s) : ~IsPunct(s[i]) /\ (i = 1 \/ IsPunct(s[i - 1]))})

\* tokens.slice(i, i + n).join(' '), with i counted from 0 as in the source.
RECURSIVE JoinSp(_)
JoinSp(ts) ==
    IF Len(ts) = 0 THEN ""
    ELSE IF Len(ts) = 1 THEN ts[1]
    ELSE ts[1] \o " " \o JoinSp(Tail(ts))

Slice(tokens, i, n) == SubSeq(tokens, i + 1, i + n)

\* The text made of the given words, one space between neighbours.
Words(ws) ==
    IF Len(ws) = 0 THEN <<>>
    ELSE [k \in 1..(2 * Len(ws) - 1) |-> IF k % 2 = 1 THEN ws[(k + 1) \div 2] ELSE " "]

\* All sequences over S of length at most n.
SeqsUpTo(S, n) == UNION {[1..k -> S] : k \in 0..n}

-----------------------------------------------------------------------------
(* countFillerWords, src/index.js 115-149 *)

\* tokens[i + 1] || '' (i from 0): the token after position i, '' past the end.
\* tokens[i + 1] === 'know' is false for undefined and for '' alike.
NextToken(tokens, i) == IF i + 2 <= Len(tokens) THEN tokens[i + 2] ELSE ""

LikeSkipList ==
    {"to", "a", "an", "the", "my", "your", "his", "her", "our", "their",
     "this", "that", "these", "those"}

SingleFillers == {"um", "uh", "like", "basically"}

\* breakdown[k] = (breakdown[k] || 0) + 1
Inc(breakdown, k) ==
    IF k \in DOMAIN breakdown
    THEN [breakdown EXCEPT ![k] = @ + 1]
    ELSE [x \in DOMAIN breakdown \cup {k} |-> IF x = k THEN 1 ELSE breakdown[x]]

EmptyBreakdown == [x \in {} |-> 0]

\* The for loop of lines 119-147, run from index i (from 0) while i < stop, with
\* the counts so far: the index and the counts it stops with.
RECURSIVE FillerLoop(_, _, _, _)
FillerLoop(tokens, i, stop, acc) ==
    IF i >= Len(tokens) \/ i >= stop THEN [i |-> i, acc |-> acc]
    ELSE LET word == tokens[i + 1]
             next == NextToken(tokens, i)
             counted(k) == [total |-> acc.total + 1, breakdown |-> Inc(acc.breakdown, k)]
         IN  IF word = "like" /\ next \in LikeSkipList
             THEN FillerLoop(tokens, i + 1, stop, acc)
             ELSE IF word = "you" /\ next = "know"
             THEN FillerLoop(tokens, i + 2, stop, counted("you know"))
             ELSE IF word = "i" /\ next = "mean"
             THEN FillerLoop(tokens, i + 2, stop, counted("i mean"))
             ELSE IF word \in SingleFillers
             THEN FillerLoop(tokens, i + 1, stop, counted(word))
             ELSE FillerLoop(tokens, i + 1, stop, acc)

\* The whole loop, taken LoopBlock indices at a time (TLC's stack does not take
\* one recursion step per token of a long text).
LoopBlock == 16

RECURSIVE FillerBlocks(_, _)
FillerBlocks(tokens, at) ==
    IF at.i >= Len(tokens) THEN at.acc
    ELSE FillerBlocks(tokens, FillerLoop(tokens, at.i, at.i + LoopBlock, at.acc))

countFillerWords(text) ==
    FillerBlocks(SplitWs(toLowerCase(text)),
                 [i |-> 0, acc |-> [total |-> 0, breakdown |-> EmptyBreakdown]])

-----------------------------------------------------------------------------
(* detectRepetitions, src/index.js 151-162 *)

MinGram == 2
MaxGram == 5

\* The phrases in the order the two loops of lines 154-159 meet them: for each
\* n, every i from 0 with i + n <= tokens.length.
GramsOfLength(tokens, n) ==
    IF n <= Len(tokens)
    THEN [k \in 1..(Len(tokens) - n + 1) |-> JoinSp(Slice(tokens, k - 1, n))]
    ELSE <<>>

RECURSIVE GramsOfLengths(_, _, _)
GramsOfLengths(tokens, n, last) ==
    IF n <= last
    THEN GramsOfLength(tokens, n) \o GramsOfLengths(tokens, n + 1, last)
    ELSE <<>>

\* counts[p] after the loops.
CountOf(grams, p) == Cardinality({k \in 1..Len(grams) : grams[k] = p})

\* Object.keys(counts): each phrase once, in the order of first insertion.
Keys(grams) ==
    SelectSeq([k \in 1..Len(grams) |->
                  IF \E j \in 1..(k - 1) : grams[j] = grams[k] THEN None ELSE grams[k]],
              LAMBDA p : p # None)

\* The filter with counts[p] >= 1.
IsRepeated_Once(grams, p) == CountOf(grams, p) >= 1

\* Line 160: the filter counts[p] > 1.
IsRepeated(grams, p) == CountOf(grams, p) > 1

RepeatedPhrases(tokens) ==
    LET grams == GramsOfLengths(tokens, MinGram, MaxGram)
        keys == Keys(grams)
        flags == [k \in 1..Len(keys) |-> IF IsRepeated(grams, keys[k]) THEN keys[k] ELSE None]
    IN  SelectSeq(flags, LAMBDA p : p # None)

detectRepetitions(text) ==
    LET phrases == RepeatedPhrases(SplitWs(toLowerCase(text)))
    IN  [phrases |-> phrases, score |-> Len(phrases)]

-----------------------------------------------------------------------------
(* Numbers *)

Min(a, b) == IF a <= b THEN a ELSE b

Max(a, b) == IF a >= b THEN a ELSE b

Abs(a) == IF a < 0 THEN -a ELSE a

RECURSIVE SumSeq(_)
SumSeq(s) == IF s = <<>> THEN 0 ELSE Head(s) + SumSeq(Tail(s))

\* Math.round(n / d) for d > 0: the nearest integer, a tie going up.
MathRound(n, d) == (2 * n + d) \div (2 * d)

\* +(n / d).toFixed(2), times 100, for n >= 0 and d > 0: two decimals, a tie going up.
ToFixed2(n, d) == (200 * n + d) \div (2 * d)

\* floor(Math.sqrt(n)), by bisection on lo^2 <= n < hi^2.
RECURSIVE SqrtBetween(_, _, _)
SqrtBetween(n, lo, hi) ==
    IF hi - lo <= 1 THEN lo
    ELSE LET mid == (lo + hi) \div 2
         IN  IF mid * mid <= n THEN SqrtBetween(n, mid, hi) ELSE SqrtBetween(n, lo, mid)

FloorSqrt(n) == SqrtBetween(n, 0, Min(n + 1, 46341))

\* floor(200 * Math.sqrt(n)): with r = floor(sqrt(n)), the largest 200 r + j
\* whose square is at most 40000 n, kept within 32-bit integers.
FloorSqrt200(n) ==
    LET r == FloorSqrt(n)
        e == n - r * r
        Fits(j) == 400 * r * j + j * j <= 40000 * e
        j == CHOOSE x \in 0..199 : Fits(x) /\ (x = 199 \/ ~Fits(x + 1))
    IN  200 * r + j

\* floor(a * b / q) for 0 <= a, b < q, by doubling, kept within 32-bit integers:
\* the pair <<quotient, remainder>> of a * b by q.
RECURSIVE MulDivMod(_, _, _)
MulDivMod(a, b, q) ==
    IF b = 0 THEN <<0, 0>>
    ELSE LET h == MulDivMod(a, b \div 2, q)
             rest == 2 * h[2] + (b % 2) * a
         IN  <<2 * h[1] + rest \div q, rest % q>>

\* Math.sqrt(n) <= p / q, for integers n >= 0, p >= 0, q > 0, decided exactly.
SqrtLeq(n, p, q) ==
    LET r == FloorSqrt(n)
        u == p \div q
        f == p % q
    IN  IF r * r = n THEN r * q <= p
        ELSE IF u > r THEN TRUE
        ELSE IF u < r THEN FALSE
        ELSE (n - r * r) * q <= 2 * r * f + MulDivMod(f, f, q)[1]

-----------------------------------------------------------------------------
(* detectPitch, src/index.js 73-113 *)

frameSize == 2048

\* Frequencies are held in units of 1/FreqScale Hz.
FreqScale == 8

\* The clip as the decoder and the estimator see it: a record with present = TRUE
\* and est, tail, exit.  est[k] is what YIN returns
\* on the k-th frame of the decoded signal (0: no estimate, a falsy value), the
\* last entry standing for the trailing samples when tail > 0 of them do not
\* fill a frame; exit is the status the transcoder ends with on this clip.
FullFrames(buffer) == IF buffer.tail > 0 THEN Len(buffer.est) - 1 ELSE Len(buffer.est)

\* Bytes of s16le mono PCM the transcoder writes for the clip.
TotalBytes(buffer) == 2 * (frameSize * FullFrames(buffer) + buffer.tail)

Pending == [state |-> "pending", value |-> NullPitch, error |-> ""]
NoPromise == [state |-> "none", value |-> NullPitch, error |-> ""]
Rejected(why) == [state |-> "rejected", value |-> NullPitch, error |-> why]
Resolved(v) == [state |-> "resolved", value |-> v, error |-> ""]

\* resolve and reject settle a promise once; later calls are ignored.
Settle(p, outcome) == IF p.state = "pending" THEN outcome ELSE p

\* Lines 95-99: for (i = 0; i + frameSize <= samples.length; i += frameSize),
\* pushing each truthy estimate.
FrameInRange(i, samplesLength) == i + frameSize <= samplesLength

RECURSIVE FramePitches(_, _, _)
FramePitches(i, samplesLength, est) ==
    IF FrameInRange(i, samplesLength)
    THEN LET freq == est[i \div frameSize + 1]
         IN  (IF freq # 0 THEN <<freq>> ELSE <<>>)
                 \o FramePitches(i + frameSize, samplesLength, est)
    ELSE <<>>

\* pitches.sort((a, b) => a - b), by insertion.
RECURSIVE Insert(_, _)
Insert(x, s) ==
    IF s = <<>> THEN <<x>>
    ELSE IF x <= Head(s) THEN <<x>> \o s
    ELSE <<Head(s)>> \o Insert(x, Tail(s))

RECURSIVE SortAsc(_)
SortAsc(s) == IF s = <<>> THEN <<>> ELSE Insert(Head(s), SortAsc(Tail(s)))

\* The lower middle element, pitches[Math.floor((pitches.length - 1) / 2)].
MedianOf_LowerMiddle(sorted) == sorted[(Len(sorted) - 1) \div 2 + 1]

\* Line 102: pitches[Math.floor(pitches.length / 2)] of the sorted estimates.
MedianOf(sorted) == sorted[Len(sorted) \div 2 + 1]

\* Lines 103-105 and 108: the population standard deviation sqrt(Q) / (n FreqScale) Hz,
\* Q = n sum(p^2) - sum(p)^2, to two decimals, times 100.
Variation100(pitches) ==
    LET n == Len(pitches)
        sum == SumSeq(pitches)
        sumSq == SumSeq([k \in 1..n |-> pitches[k] * pitches[k]])
        Q == n * sumSq - sum * sum
    IN  (FloorSqrt200(Q) + n * FreqScale) \div (2 * n * FreqScale)

\* Lines 90-109: what the 'close' handler settles the promise with for exit code 0.
AnalysePcm(chunks, est) ==
    LET pcmLength == SumSeq(chunks)
        samplesLength == pcmLength \div 2
        pitches == FramePitches(0, samplesLength, est)
    IN  IF Len(pitches) = 0 THEN Resolved(NullPitch)
        ELSE Resolved(PitchOf(ToFixed2(MedianOf(SortAsc(pitches)), FreqScale),
                              Variation100(pitches)))

\* The 'close' handler without the test of the exit code.
OnClose_NoExitCheck(code, chunks, est) == AnalysePcm(chunks, est)

\* Lines 86-110: the 'close' handler.
OnClose(code, chunks, est) ==
    IF code # 0 THEN Rejected("ffmpeg exited with code") ELSE AnalysePcm(chunks, est)

-----------------------------------------------------------------------------
(* getRawMetrics, src/index.js 164-254 *)

\* Times are held in units of 1/TimeScale seconds.
TimeScale == 4

\* Line 165: words.length.
WordCount(text) == Len(SplitWs(trim(text)))

\* Lines 168-174: words.length / (duration / 60) to two decimals, times 100.
DurationPositive(duration) == duration > 0

Wpm100(wordsLength, segs) ==
    IF Len(segs) > 0
    THEN LET duration == segs[Len(segs)].end - segs[1].start
         IN  IF DurationPositive(duration)
             THEN ToFixed2(wordsLength * 60 * TimeScale, duration)
             ELSE 0
    ELSE 0

\* The await of line 179 outside any try block: a rejection propagates.
AwaitOutcome_NoCatch(p) ==
    IF p.state = "rejected"
    THEN [pitchInfo |-> NullPitch, logged |-> <<>>, threw |-> TRUE]
    ELSE [pitchInfo |-> p.value, logged |-> <<>>, threw |-> FALSE]

\* Lines 176-183: how the try block around the await ends for a settled promise.
AwaitOutcome(p) ==
    IF p.state = "rejected"
    THEN [pitchInfo |-> NullPitch, logged |-> <<"Pitch detection error">>, threw |-> FALSE]
    ELSE [pitchInfo |-> p.value, logged |-> <<>>, threw |-> FALSE]

\* detectPitch called without await: getRawMetrics goes straight on.
PcAfterCall_NoAwait == "L185"

\* The position getRawMetrics takes on calling detectPitch: suspended at the await.
PcAfterCall == "await"

\* Lines 190-192: Math.round(((wpmNorm + pitchVarNorm) / 2) * 10), with
\* wpmNorm = min(1, wpm / 160) and pitchVarNorm = min(1, (pitch_variation || 0) / 60).
WpmNorm16000(wpm) == Min(16000, wpm)

\* The two normalised terms summed but not averaged.
EnergyScore_NoHalf(wpm, info) ==
    LET variation == IF info.found THEN info.variation ELSE 0
        pitchVarNorm6000 == Min(6000, variation)
    IN  MathRound(10 * (3 * WpmNorm16000(wpm) + 8 * pitchVarNorm6000), 48000)

EnergyScore(wpm, info) ==
    LET variation == IF info.found THEN info.variation ELSE 0
        pitchVarNorm6000 == Min(6000, variation)
    IN  MathRound(5 * (3 * WpmNorm16000(wpm) + 8 * pitchVarNorm6000), 48000)

EnergyLabel(score) == IF score > 7 THEN "High" ELSE IF score >= 4 THEN "Moderate" ELSE "Low"

\* The rounded score without Math.max(1, ...).
ClampMin1_None(score) == score

\* Lines 203 and 228: Math.max(1, Math.round(...)).
ClampMin1(score) == Max(1, score)

\* Lines 196-203, over the common denominator words.length.

DisfluencyScore(fillerTotal, wordsLength, repetitionScore, sentences) ==
    LET sentenceDiv == IF sentences = 0 THEN 1 ELSE sentences
        lengthPenalty ==
            IF wordsLength > 20 * sentenceDiv \/ wordsLength < 5 * sentenceDiv THEN 2 ELSE 0
        num == 10 * wordsLength
               - Min(5 * wordsLength, 50 * fillerTotal)
               - Min(3, repetitionScore) * wordsLength
               - lengthPenalty * wordsLength
    IN  ClampMin1(MathRound(num, wordsLength))

DisfluencyLabel(score) ==
    IF score > 7 THEN "Smooth" ELSE IF score >= 4 THEN "Somewhat Choppy" ELSE "Very Choppy"

\* Lines 210-215: the strictly positive gaps between neighbouring segments.
RECURSIVE GapsFrom(_, _)
GapsFrom(segs, i) ==
    IF i < Len(segs) - 1
    THEN LET gap == segs[i + 2].start - segs[i + 1].end
         IN  (IF gap > 0 THEN <<gap>> ELSE <<>>) \o GapsFrom(segs, i + 1)
    ELSE <<>>

Gaps(segs) == IF Len(segs) > 1 THEN GapsFrom(segs, 0) ELSE <<>>

\* Lines 208-228.  With g gaps summing to sum, avgGap = sum / (g TimeScale) and
\* gapStd = sqrt(Q) / (g TimeScale) seconds, Q = g sum(gap^2) - sum^2.  The score is
\* floor(R - b), R = 10.5 less the three rational penalties and b = min(2, 2 gapStd).
CadenceScore(gaps, wpm, fillerTotal, wordsLength) ==
    LET g == Len(gaps)
        sum == SumSeq(gaps)
        sumSq == SumSeq([k \in 1..g |-> gaps[k] * gaps[k]])
        Q == g * sumSq - sum * sum
        Dg == IF g = 0 THEN 1 ELSE g * TimeScale
        gapNum == Min(3 * Dg, 3 * sum)
        wpmNum == Min(15000, Abs(wpm - 15000))
        fillerNum == Min(2 * wordsLength, 10 * fillerTotal)
        D == Dg * 5000 * wordsLength
        Rd == 2 * D
        Rn == 21 * D - 2 * gapNum * 5000 * wordsLength
                     - 2 * wpmNum * Dg * wordsLength
                     - 2 * fillerNum * Dg * 5000
        m == Rn \div Rd
        frac == Rn - m * Rd
        rounded ==
            IF Q >= Dg * Dg THEN m - 2
            ELSE IF SqrtLeq(Q, Dg * frac, 2 * Rd) THEN m
            ELSE IF SqrtLeq(Q, Dg * (frac + Rd), 2 * Rd) THEN m - 1
            ELSE m - 2
    IN  ClampMin1(rounded)

CadenceDescription(score) ==
    IF score > 8 THEN "Very Smooth"
    ELSE IF score >= 6 THEN "Smooth"
    ELSE IF score >= 4 THEN "Uneven"
    ELSE "Choppy"

\* Lines 190-236: the composite scores and their labels.
CompositeScores(text, segs, wordsLength, fillerTotal, wpm, repetitionScore, info) ==
    LET energy == EnergyScore(wpm, info)
        disfluency == DisfluencyScore(fillerTotal, wordsLength, repetitionScore,
                                      SentenceCount(text))
        cadence == CadenceScore(Gaps(segs), wpm, fillerTotal, wordsLength)
    IN  [energy_score |-> energy, energy_label |-> EnergyLabel(energy),
         disfluency_score |-> disfluency, disfluency_label |-> DisfluencyLabel(disfluency),
         cadence_score |-> cadence, cadence_description |-> CadenceDescription(cadence)]

\* Lines 240-241: pitch ?? 'N/A' and pitch_variation ?? 'N/A'.
OrNA(info, field) == IF info.found THEN JsNum(info[field]) ELSE NA

\* Lines 238-253: the record returned.
ReturnRecord(wpm, info, fw, rp, sc) ==
    [wpm |-> wpm,
     pitch |-> OrNA(info, "median"),
     pitch_variation |-> OrNA(info, "variation"),
     filler_words |-> fw.total,
     filler_word_total |-> fw.total,
     filler_word_breakdown |-> fw.breakdown,
     repetitive_phrases |-> rp.phrases,
     repetition_score |-> rp.score,
     energy_score |-> sc.energy_score,
     energy_label |-> sc.energy_label,
     disfluency_score |-> sc.disfluency_score,
     disfluency_label |-> sc.disfluency_label,
     cadence_score |-> sc.cadence_score,
     cadence_description |-> sc.cadence_description]

-----------------------------------------------------------------------------
(* The child process and detectPitch's promise *)

\* The most 'data' events one run of the transcoder delivers its output in.
MaxChunks == 3

\* The byte lengths the next chunk may have: one byte, one frame, or all that
\* is left; the last chunk the model allows takes all that is left.
ChunkSizes(remaining, chunksSoFar) ==
    IF chunksSoFar + 1 >= MaxChunks THEN {remaining}
    ELSE {remaining} \cup {c \in {1, 2 * frameSize} : c < remaining}

\* Lines 75-85 and 111: spawn, the three handlers registered, stdin ended.
Spawned ==
    /\ ff' = "running"
    /\ delivered' = 0
    /\ pcmChunks' = <<>>
    /\ promise' = Pending

\* Line 84: ff.stdout.on('data', c => pcmChunks.push(c)).
FfData ==
    /\ ff = "running"
    /\ ~spawnFails
    /\ delivered < TotalBytes(audioBuffer)
    /\ \E c \in ChunkSizes(TotalBytes(audioBuffer) - delivered, Len(pcmChunks)) :
          /\ pcmChunks' = Append(pcmChunks, c)
          /\ delivered' = delivered + c
    /\ UNCHANGED <<transcript, segments, audioBuffer, spawnFails, pc, words, filler,
                   wpm100, rep, pitchInfo, scores, ret, log, ff, promise>>
    /\ UNCHANGED <<handlerVars, other>>

\* Line 85: ff.on('error', reject), emitted when the transcoder cannot be started.
FfError ==
    /\ ff = "running"
    /\ spawnFails
    /\ ff' = "errored"
    /\ promise' = Settle(promise, Rejected("spawn"))
    /\ UNCHANGED <<transcript, segments, audioBuffer, spawnFails, pc, words, filler,
                   wpm100, rep, pitchInfo, scores, ret, log, delivered, pcmChunks>>
    /\ UNCHANGED <<handlerVars, other>>

\* The exit status 'close' reports: the transcoder's own once all its output is
\* delivered (at any point when it fails), a negative errno after a failed spawn.
SpawnErrno == -2

\* Lines 86-110: ff.on('close', ...).
FfClose ==
    /\ \/ /\ ff = "running"
          /\ ~spawnFails
          /\ audioBuffer.exit = 0 => delivered = TotalBytes(audioBuffer)
          /\ promise' = Settle(promise, OnClose(audioBuffer.exit, pcmChunks, audioBuffer.est))
       \/ /\ ff = "errored"
          /\ promise' = Settle(promise, OnClose(SpawnErrno, pcmChunks, audioBuffer.est))
    /\ ff' = "closed"
    /\ UNCHANGED <<transcript, segments, audioBuffer, spawnFails, pc, words, filler,
                   wpm100, rep, pitchInfo, scores, ret, log, delivered, pcmChunks>>
    /\ UNCHANGED <<handlerVars, other>>

-----------------------------------------------------------------------------
(* getRawMetrics, statement by statement *)

\* Lines 165-174: words, the filler counts and wpm.
GRM_Text ==
    /\ pc = "L165"
    /\ words' = Some(WordCount(transcript))
    /\ filler' = Some(countFillerWords(transcript))
    /\ wpm100' = Some(Wpm100(WordCount(transcript), segments))
    /\ pc' = "L176"
    /\ UNCHANGED <<transcript, segments, audioBuffer, spawnFails, rep, pitchInfo,
                   scores, ret, log, ff, delivered, pcmChunks, promise>>
    /\ UNCHANGED <<handlerVars, other>>

\* Lines 176-179: let pitchInfo = null; if (audioBuffer) detectPitch is called
\* and getRawMetrics waits for its promise.
GRM_PitchStage ==
    /\ pc = "L176"
    /\ IF audioBuffer.present
       THEN Spawned /\ pc' = PcAfterCall
       ELSE pc' = "L185" /\ UNCHANGED <<ff, delivered, pcmChunks, promise>>
    /\ UNCHANGED <<transcript, segments, audioBuffer, spawnFails, words, filler,
                   wpm100, rep, pitchInfo, scores, ret, log>>
    /\ UNCHANGED <<handlerVars, other>>

\* Lines 179-182: the await resumes once the promise has settled.
GRM_Resume ==
    /\ pc = "await"
    /\ promise.state \in {"resolved", "rejected"}
    /\ LET out == AwaitOutcome(promise)
       IN  /\ log' = log \o out.logged
           /\ IF out.threw
              THEN /\ ret' = [threw |-> TRUE]
                   /\ pc' = "done"
                   /\ UNCHANGED pitchInfo
              ELSE /\ pitchInfo' = out.pitchInfo
                   /\ pc' = "L185"
                   /\ UNCHANGED ret
    /\ UNCHANGED <<transcript, segments, audioBuffer, spawnFails, words, filler,
                   wpm100, rep, scores, ff, delivered, pcmChunks, promise>>
    /\ UNCHANGED <<handlerVars, other>>

\* Line 185.
GRM_Repetitions ==
    /\ pc = "L185"
    /\ rep' = Some(detectRepetitions(transcript))
    /\ pc' = "L187"
    /\ UNCHANGED <<transcript, segments, audioBuffer, spawnFails, words, filler,
                   wpm100, pitchInfo, scores, ret, log, ff, delivered, pcmChunks, promise>>
    /\ UNCHANGED <<handlerVars, other>>

\* Lines 187-236.
GRM_Score ==
    /\ pc = "L187"
    /\ scores' = Some(CompositeScores(transcript, segments, words.v, filler.v.total,
                                      wpm100.v, rep.v.score, pitchInfo))
    /\ pc' = "L238"
    /\ UNCHANGED <<transcript, segments, audioBuffer, spawnFails, words, filler,
                   wpm100, rep, pitchInfo, ret, log, ff, delivered, pcmChunks, promise>>
    /\ UNCHANGED <<handlerVars, other>>

\* Lines 238-253.
GRM_Return ==
    /\ pc = "L238"
    /\ ret' = [threw |-> FALSE,
               value |-> ReturnRecord(wpm100.v, pitchInfo, filler.v, rep.v, scores.v)]
    /\ pc' = "done"
    /\ UNCHANGED <<transcript, segments, audioBuffer, spawnFails, words, filler,
                   wpm100, rep, pitchInfo, scores, log, ff, delivered, pcmChunks, promise>>
    /\ UNCHANGED <<handlerVars, other>>

-----------------------------------------------------------------------------
(* The functions called on their own *)

FW_Call ==
    /\ pc = "countFillerWords"
    /\ filler' = Some(countFillerWords(transcript))
    /\ pc' = "returned"
    /\ UNCHANGED <<transcript, segments, audioBuffer, spawnFails, words, wpm100, rep,
                   pitchInfo, scores, ret, log, ff, delivered, pcmChunks, promise>>
    /\ UNCHANGED <<handlerVars, other>>

DR_Call ==
    /\ pc = "detectRepetitions"
    /\ rep' = Some(detectRepetitions(transcript))
    /\ pc' = "returned"
    /\ UNCHANGED <<transcript, segments, audioBuffer, spawnFails, words, filler, wpm100,
                   pitchInfo, scores, ret, log, ff, delivered, pcmChunks, promise>>
    /\ UNCHANGED <<handlerVars, other>>

\* detectPitch(buffer) returns its pending promise at once.
DP_Call ==
    /\ pc = "detectPitch"
    /\ Spawned
    /\ pc' = "returned"
    /\ UNCHANGED <<transcript, segments, audioBuffer, spawnFails, words, filler, wpm100,
                   rep, pitchInfo, scores, ret, log>>
    /\ UNCHANGED <<handlerVars, other>>

-----------------------------------------------------------------------------
(* POST /analyze, src/index.js 256-318 *)

inputVars == <<transcript, segments, audioBuffer, spawnFails>>

callVars == <<words, filler, wpm100, rep, pitchInfo, scores, ret, ff, delivered,
              pcmChunks, promise>>

JsNull == [type |-> "null"]

\* result.transcript = transcription.text.
JsText(text) == [type |-> "text", pieces |-> text]

\* A value taken from the chat completion's JSON.
FromService == [type |-> "service"]

\* if (result.transcript): null and the empty string are falsy.
Truthy(v) == v.type # "null" /\ (v.type = "text" => Len(v.pieces) > 0)

\* Lines 261-269.
NullResult ==
    [transcript |-> JsNull, summary |-> JsNull, tone |-> JsNull, tone_rating |-> JsNull,
     tone_explanation |-> JsNull, raw_metrics |-> JsNull, feedback |-> JsNull]

\* A segment entry that is null: reading its start or end throws a TypeError.
NullSeg == [null |-> TRUE]

IsNullSeg(seg) == "start" \notin DOMAIN seg

\* Line 170: segments[segments.length - 1].end - segments[0].start throws when
\* either entry is null.
ThrowsAtL170(segs) ==
    Len(segs) > 0 /\ (IsNullSeg(segs[Len(segs)]) \/ IsNullSeg(segs[1]))

\* Lines 23-25: metrics = {} stands in for undefined only, so with null for
\* metrics the read of metrics.wpm throws before the completion is requested.
ThrowsAtL25(metrics) == metrics.type = "null"

\* Lines 41-70: what analyzeTranscript returns or throws for an outcome of the
\* chat completion.
Analysis(outcome) ==
    IF outcome = "ok"
    THEN [threw |-> FALSE, summary |-> FromService, tone |-> FromService,
          tone_rating |-> FromService, tone_explanation |-> FromService,
          feedback |-> FromService]
    ELSE IF outcome = "notjson"
    THEN [threw |-> FALSE, summary |-> JsStr("content"), tone |-> JsStr(""),
          tone_rating |-> JsNull, tone_explanation |-> JsStr(""), feedback |-> JsStr("")]
    ELSE [threw |-> TRUE]

\* res.status(status).json(body).
Response(status, body) == [status |-> status, body |-> body]

\* Lines 257-269: the request without a file is answered at once.
H_CheckFile ==
    /\ hpc = "L257"
    /\ IF ~file
       THEN /\ responses' = Append(responses, Response(400, [error |-> "No video file provided"]))
            /\ hpc' = "end"
            /\ UNCHANGED result
       ELSE /\ result' = NullResult
            /\ hpc' = "L272"
            /\ UNCHANGED responses
    /\ UNCHANGED <<inputVars, callVars, pc, log, file, whisper, narrator, narrated, other>>

\* Lines 271-283: the transcription, its failure logged.
H_Transcribe ==
    /\ hpc = "L272"
    /\ IF whisper = "ok"
       THEN result' = [result EXCEPT !.transcript = JsText(transcript)] /\ UNCHANGED log
       ELSE log' = Append(log, "Transcription error") /\ UNCHANGED result
    /\ hpc' = "L285"
    /\ UNCHANGED <<inputVars, callVars, pc, file, whisper, narrator, responses, narrated, other>>

\* Lines 285-293: getRawMetrics is called when there is a transcript; a throw
\* of its is logged.
H_CallMetrics ==
    /\ hpc = "L285"
    /\ IF ~Truthy(result.transcript)
       THEN hpc' = "L308" /\ UNCHANGED <<pc, log>>
       ELSE IF ThrowsAtL170(segments)
       THEN /\ log' = Append(log, "Metrics calculation error")
            /\ hpc' = "L296"
            /\ UNCHANGED pc
       ELSE /\ pc' = "L165"
            /\ hpc' = "L287"
            /\ UNCHANGED log
    /\ UNCHANGED <<inputVars, callVars, file, whisper, narrator, result, responses,
                   narrated, other>>

\* Lines 287-293: the await of getRawMetrics resumes.
H_MetricsDone ==
    /\ hpc = "L287"
    /\ pc = "done"
    /\ IF ret.threw
       THEN log' = Append(log, "Metrics calculation error") /\ UNCHANGED result
       ELSE result' = [result EXCEPT !.raw_metrics = [type |-> "object", v |-> ret.value]]
            /\ UNCHANGED log
    /\ hpc' = "L296"
    /\ UNCHANGED <<inputVars, callVars, pc, file, whisper, narrator, responses, narrated, other>>

\* Lines 296-305: analyzeTranscript(result.transcript, result.raw_metrics).
H_Narrate ==
    /\ hpc = "L296"
    /\ IF ThrowsAtL25(result.raw_metrics)
       THEN /\ log' = Append(log, "Tone analysis error")
            /\ UNCHANGED <<result, narrated>>
       ELSE /\ narrated' = narrated + 1
            /\ LET analysis == Analysis(narrator)
               IN  IF analysis.threw
                   THEN log' = Append(log, "Tone analysis error") /\ UNCHANGED result
                   ELSE /\ result' = [result EXCEPT !.summary = analysis.summary,
                                                     !.tone = analysis.tone,
                                                     !.tone_rating = analysis.tone_rating,
                                                     !.tone_explanation = analysis.tone_explanation,
                                                     !.feedback = analysis.feedback]
                        /\ UNCHANGED log
    /\ hpc' = "L308"
    /\ UNCHANGED <<inputVars, callVars, pc, file, whisper, narrator, responses, other>>

\* Lines 308-318: without a transcript the error middleware logs and answers
\* 500; otherwise the result is sent.
H_Respond ==
    /\ hpc = "L308"
    /\ IF ~Truthy(result.transcript)
       THEN /\ log' = Append(log, "Failed to transcribe video")
            /\ responses' = Append(responses, Response(500, [error |-> "Internal server error"]))
       ELSE /\ responses' = Append(responses, Response(200, result))
            /\ UNCHANGED log
    /\ hpc' = "end"
    /\ UNCHANGED <<inputVars, callVars, pc, file, whisper, narrator, result, narrated, other>>

-----------------------------------------------------------------------------
(* A second call of getRawMetrics on the same arguments, running concurrently.
   Every local of getRawMetrics and detectPitch (lines 74-84 and 165-236) is
   declared inside the call, so the second call has locals and a child process
   of its own, held in the record other. *)

\* The locals of a call that has just been made.
FreshCall ==
    [active |-> TRUE, pc |-> "L165", words |-> Unset, filler |-> Unset, wpm100 |-> Unset,
     rep |-> Unset, pitchInfo |-> NullPitch, scores |-> Unset, ret |-> Unset,
     ff |-> "none", delivered |-> 0, pcmChunks |-> <<>>, promise |-> NoPromise]

\* The chunks read from an array that both calls share.
ChunksAtClose_Shared(mine, theirs) == theirs

\* Lines 83 and 90: Buffer.concat(pcmChunks) reads the array of that call.
ChunksAtClose(mine, theirs) == mine

otherFrame == <<inputVars, callVars, pc, handlerVars>>

\* Lines 165-174.
R2_Text ==
    /\ other.active /\ other.pc = "L165"
    /\ other' = [other EXCEPT !.words = Some(WordCount(transcript)),
                              !.filler = Some(countFillerWords(transcript)),
                              !.wpm100 = Some(Wpm100(WordCount(transcript), segments)),
                              !.pc = "L176"]
    /\ UNCHANGED <<otherFrame, log>>

\* Lines 176-179, with the spawn of lines 75-85 and 111.
R2_PitchStage ==
    /\ other.active /\ other.pc = "L176"
    /\ other' = IF audioBuffer.present
                THEN [other EXCEPT !.ff = "running", !.delivered = 0, !.pcmChunks = <<>>,
                                   !.promise = Pending, !.pc = PcAfterCall]
                ELSE [other EXCEPT !.pc = "L185"]
    /\ UNCHANGED <<otherFrame, log>>

\* Lines 179-182.
R2_Resume ==
    /\ other.active /\ other.pc = "await"
    /\ other.promise.state \in {"resolved", "rejected"}
    /\ LET out == AwaitOutcome(other.promise)
       IN  /\ log' = log \o out.logged
           /\ other' = IF out.threw
                       THEN [other EXCEPT !.ret = [threw |-> TRUE], !.pc = "done"]
                       ELSE [other EXCEPT !.pitchInfo = out.pitchInfo, !.pc = "L185"]
    /\ UNCHANGED otherFrame

\* Line 185.
R2_Repetitions ==
    /\ other.active /\ other.pc = "L185"
    /\ other' = [other EXCEPT !.rep = Some(detectRepetitions(transcript)), !.pc = "L187"]
    /\ UNCHANGED <<otherFrame, log>>

\* Lines 187-236.
R2_Score ==
    /\ other.active /\ other.pc = "L187"
    /\ other' = [other EXCEPT
                    !.scores = Some(CompositeScores(transcript, segments, other.words.v,
                                                    other.filler.v.total, other.wpm100.v,
                                                    other.rep.v.score, other.pitchInfo)),
                    !.pc = "L238"]
    /\ UNCHANGED <<otherFrame, log>>

\* Lines 238-253.
R2_Return ==
    /\ other.active /\ other.pc = "L238"
    /\ other' = [other EXCEPT
                    !.ret = [threw |-> FALSE,
                             value |-> ReturnRecord(other.wpm100.v, other.pitchInfo,
                                                    other.filler.v, other.rep.v,
                                                    other.scores.v)],
                    !.pc = "done"]
    /\ UNCHANGED <<otherFrame, log>>

\* Line 84, on the second call's child.
R2_FfData ==
    /\ other.active /\ other.ff = "running"
    /\ ~spawnFails
    /\ other.delivered < TotalBytes(audioBuffer)
    /\ \E c \in ChunkSizes(TotalBytes(audioBuffer) - other.delivered, Len(other.pcmChunks)) :
          other' = [other EXCEPT !.pcmChunks = Append(other.pcmChunks, c),
                                 !.delivered = other.delivered + c]
    /\ UNCHANGED <<otherFrame, log>>

\* Line 85, on the second call's child.
R2_FfError ==
    /\ other.active /\ other.ff = "running"
    /\ spawnFails
    /\ other' = [other EXCEPT !.ff = "errored",
                              !.promise = Settle(other.promise, Rejected("spawn"))]
    /\ UNCHANGED <<otherFrame, log>>

\* Lines 86-110, on the second call's child.
R2_FfClose ==
    /\ other.active
    /\ LET chunks == ChunksAtClose(other.pcmChunks, pcmChunks)
       IN  \/ /\ other.ff = "running"
              /\ ~spawnFails
              /\ audioBuffer.exit = 0 => other.delivered = TotalBytes(audioBuffer)
              /\ other' = [other EXCEPT
                              !.promise = Settle(other.promise,
                                                 OnClose(audioBuffer.exit, chunks,
                                                         audioBuffer.est)),
                              !.ff = "closed"]
           \/ /\ other.ff = "errored"
              /\ other' = [other EXCEPT
                              !.promise = Settle(other.promise,
                                                 OnClose(SpawnErrno, chunks, audioBuffer.est)),
                              !.ff = "closed"]
    /\ UNCHANGED <<otherFrame, log>>

-----------------------------------------------------------------------------
(* Inputs *)

Sg(a, b) == [start |-> a, end |-> b]

Clip(est, tail, exit) == [present |-> TRUE, est |-> est, tail |-> tail, exit |-> exit]

\* A zero-length buffer: the transcoder has nothing to decode and writes no PCM.
EmptyBuffer(exit) == Clip(<<>>, 0, exit)

Hz(n) == n * FreqScale

Seconds(n) == n * TimeScale

\* Transcripts of getRawMetrics: every text of at most MaxLen pieces, and longer ones.
MaxLen == 2

MetricsPieces == {" ", ".", "um"}

Text150 == Words([k \in 1..150 |-> "w"])

TextChoppy == <<".", " ", ".", " ">> \o Words(<<"um", "um", "um", "um", "um">>)

TextCoffee == Words(<<"I", "would", "like", "a", "coffee", ".">>)

TextUmUm == <<" ">> \o Words(<<"Um", "um", "um.", "So", "um", "um">>) \o <<" ">>

MetricsTranscripts == SeqsUpTo(MetricsPieces, MaxLen) \cup {TextChoppy, TextCoffee, TextUmUm}

\* Segment sequences: at most MaxSegs segments of positive, zero and negative
\* duration, with positive, zero and negative gaps; and longer ones.
MaxSegs == 2

SegVals == {Sg(0, 2), Sg(3, 3), Sg(3, 0)}

SegsSparse == <<Sg(0, 1), Sg(5, 6), Sg(18, 19)>>

SegsUneven == <<Sg(0, 1), Sg(2, 3), Sg(4, 5), Sg(7, 8)>>

SegsMinute == <<Sg(Seconds(0), Seconds(60))>>

MetricsSegments == SeqsUpTo(SegVals, MaxSegs) \cup {SegsSparse, SegsUneven, SegsMinute}

\* The audio argument with the environment's part: whether the transcoder starts.
AudioCase(buffer, fails) == [buffer |-> buffer, spawnFails |-> fails]

MetricsAudio ==
    {AudioCase(Absent, FALSE),
     AudioCase(EmptyBuffer(0), FALSE),
     AudioCase(EmptyBuffer(1), FALSE),
     AudioCase(EmptyBuffer(1), TRUE),
     AudioCase(Clip(<<Hz(100), Hz(125) + 1>>, 0, 0), FALSE),
     AudioCase(Clip(<<Hz(300), Hz(100), Hz(200)>>, 1, 0), FALSE),
     AudioCase(Clip(<<0>>, 0, 0), FALSE),
     AudioCase(Clip(<<Hz(100)>>, 0, 1), FALSE)}

MetricsInputs ==
    {[text |-> t, segs |-> s, audio |-> a] :
        t \in MetricsTranscripts, s \in MetricsSegments, a \in MetricsAudio}
    \cup {[text |-> Text150, segs |-> s, audio |-> AudioCase(Absent, FALSE)] :
             s \in {SegsMinute, <<>>, <<Sg(3, 0)>>}}

\* Transcripts of countFillerWords.
MaxFillerLen == 3

FillerPieces ==
    {" ", ".", "like", "so", "um", "I", "you", "know", "a", "to", "running", "super"}

TextTired == Words(<<"um", "I", "was", "like", "super", "tired">>)

FillerInputs == SeqsUpTo(FillerPieces, MaxFillerLen) \cup {TextTired, TextCoffee}

\* Transcripts of detectRepetitions: at most MaxRepTokens words, and short texts
\* with stray whitespace.
MaxRepTokens == 6

RepWords == {"a", "b", "I"}

TextJustWant ==
    Words(<<"I", "just", "want", "to", "say", "I", "just", "want", "to", "help">>)

RepInputs ==
    {Words(ws) : ws \in SeqsUpTo(RepWords, MaxRepTokens)}
    \cup SeqsUpTo({" ", "a"}, MinGram + 2)
    \cup {TextJustWant}

\* Clips of detectPitch: at most MaxFrames full frames, with and without
\* trailing samples, decoding or not.
MaxFrames == 2

EstVals == {0, Hz(100), Hz(200), Hz(125) + 1}

TailVals == {1, frameSize - 1}

ClipFourFrames == Clip(<<Hz(400), Hz(100), Hz(300), Hz(200)>>, 0, 0)

PitchClips ==
    {Clip(e, 0, x) : e \in SeqsUpTo(EstVals, MaxFrames), x \in {0, 1}}
    \cup {Clip(Append(e, v), t, x) :
             e \in SeqsUpTo(EstVals, MaxFrames), v \in EstVals, t \in TailVals, x \in {0, 1}}
    \cup {ClipFourFrames}

-----------------------------------------------------------------------------
(* Specifications *)

Idle ==
    /\ words = Unset
    /\ filler = Unset
    /\ wpm100 = Unset
    /\ rep = Unset
    /\ pitchInfo = NullPitch
    /\ scores = Unset
    /\ ret = Unset
    /\ log = <<>>
    /\ ff = "none"
    /\ delivered = 0
    /\ pcmChunks = <<>>
    /\ promise = NoPromise

\* No request is being handled.
NoHandler ==
    /\ file = FALSE
    /\ whisper = "none"
    /\ narrator = "none"
    /\ hpc = "none"
    /\ result = NullResult
    /\ responses = <<>>
    /\ narrated = 0

\* No second call of getRawMetrics is running.
NoOther == [active |-> FALSE]

\* The function under study is called on its own.
Standalone == NoHandler /\ other = NoOther

\* One call of getRawMetrics(transcript, segments, audioBuffer).
Init ==
    /\ \E in \in MetricsInputs :
          /\ transcript = in.text
          /\ segments = in.segs
          /\ audioBuffer = in.audio.buffer
          /\ spawnFails = in.audio.spawnFails
    /\ pc = "L165"
    /\ Idle
    /\ Standalone

Next ==
    \/ GRM_Text
    \/ GRM_PitchStage
    \/ GRM_Resume
    \/ GRM_Repetitions
    \/ GRM_Score
    \/ GRM_Return
    \/ FfData
    \/ FfError
    \/ FfClose

Spec == Init /\ [][Next]_vars

\* One call of countFillerWords(transcript).
InitFiller ==
    /\ transcript \in FillerInputs
    /\ segments = <<>>
    /\ audioBuffer = Absent
    /\ spawnFails = FALSE
    /\ pc = "countFillerWords"
    /\ Idle
    /\ Standalone

NextFiller == FW_Call

SpecFiller == InitFiller /\ [][NextFiller]_vars

\* One call of detectRepetitions(transcript).
InitRep ==
    /\ transcript \in RepInputs
    /\ segments = <<>>
    /\ audioBuffer = Absent
    /\ spawnFails = FALSE
    /\ pc = "detectRepetitions"
    /\ Idle
    /\ Standalone

NextRep == DR_Call

SpecRep == InitRep /\ [][NextRep]_vars

\* One call of detectPitch(audioBuffer).
InitPitch ==
    /\ transcript = <<>>
    /\ segments = <<>>
    /\ audioBuffer \in PitchClips
    /\ spawnFails \in BOOLEAN
    /\ pc = "detectPitch"
    /\ Idle
    /\ Standalone

NextPitch ==
    \/ DP_Call
    \/ FfData
    \/ FfError
    \/ FfClose

SpecPitch == InitPitch /\ [][NextPitch]_vars

\* One POST /analyze request.  The transcript and the segments are what the
\* transcription returns when it succeeds, the audio is req.file.buffer.
AnalyzeTranscripts == {<<>>, <<" ">>, TextCoffee}

AnalyzeSegments == {<<>>, <<Sg(0, 2)>>, <<NullSeg>>, <<Sg(0, 2), Sg(3, 3)>>}

AnalyzeAudio ==
    {AudioCase(EmptyBuffer(1), FALSE),
     AudioCase(EmptyBuffer(1), TRUE),
     AudioCase(Clip(<<Hz(100), Hz(125) + 1>>, 0, 0), FALSE)}

InitAnalyze ==
    /\ file \in BOOLEAN
    /\ whisper \in {"ok", "fails"}
    /\ narrator \in {"ok", "notjson", "fails"}
    /\ transcript \in AnalyzeTranscripts
    /\ segments \in AnalyzeSegments
    /\ \E a \in AnalyzeAudio :
          /\ audioBuffer = (IF file THEN a.buffer ELSE Absent)
          /\ spawnFails = a.spawnFails
    /\ hpc = "L257"
    /\ result = NullResult
    /\ responses = <<>>
    /\ narrated = 0
    /\ pc = "idle"
    /\ Idle
    /\ other = NoOther

NextAnalyze ==
    \/ H_CheckFile
    \/ H_Transcribe
    \/ H_CallMetrics
    \/ H_MetricsDone
    \/ H_Narrate
    \/ H_Respond
    \/ GRM_Text
    \/ GRM_PitchStage
    \/ GRM_Resume
    \/ GRM_Repetitions
    \/ GRM_Score
    \/ GRM_Return
    \/ FfData
    \/ FfError
    \/ FfClose

SpecAnalyze == InitAnalyze /\ [][NextAnalyze]_vars

\* Two concurrent calls of getRawMetrics on the same arguments.
PairTranscripts == {TextCoffee, TextUmUm}

PairSegments == {<<>>, SegsUneven}

InitPair ==
    /\ transcript \in PairTranscripts
    /\ segments \in PairSegments
    /\ \E a \in MetricsAudio :
          /\ audioBuffer = a.buffer
          /\ spawnFails = a.spawnFails
    /\ pc = "L165"
    /\ Idle
    /\ NoHandler
    /\ other = FreshCall

NextPair ==
    \/ GRM_Text
    \/ GRM_PitchStage
    \/ GRM_Resume
    \/ GRM_Repetitions
    \/ GRM_Score
    \/ GRM_Return
    \/ FfData
    \/ FfError
    \/ FfClose
    \/ R2_Text
    \/ R2_PitchStage
    \/ R2_Resume
    \/ R2_Repetitions
    \/ R2_Score
    \/ R2_Return
    \/ R2_FfData
    \/ R2_FfError
    \/ R2_FfClose

SpecPair == InitPair /\ [][NextPair]_vars

-----------------------------------------------------------------------------
(* Properties *)

Range(seq) == {seq[k] : k \in 1..Len(seq)}

Returned == pc = "done"

RawMetricsFields ==
    {"wpm", "pitch", "pitch_variation", "filler_word_total", "filler_word_breakdown",
     "repetitive_phrases", "repetition_score", "energy_score", "energy_label",
     "disfluency_score", "disfluency_label", "cadence_score", "cadence_description"}

\* The pitch stage ended with a pitch.
PitchFound == promise.state = "resolved" /\ promise.value.found

\* The pitch stage has settled: skipped, resolved or rejected.
PitchSettled == ~audioBuffer.present \/ promise.state \in {"resolved", "rejected"}

\* C1: whatever way the pitch stage ends (the transcoder cannot be started, it
\* exits non-zero, no frame yields a pitch, a pitch is found), getRawMetrics does
\* not throw and returns a record with every RawMetrics field; in the three
\* endings without a pitch, pitch and pitch_variation are both "N/A".
C1_AlwaysFullRecord ==
    Returned =>
        /\ ~ret.threw
        /\ RawMetricsFields \subseteq DOMAIN ret.value
        /\ (audioBuffer.present /\ ~PitchFound) =>
               (ret.value.pitch = NA /\ ret.value.pitch_variation = NA)
        /\ PitchFound =>
               (ret.value.pitch.type = "number" /\ ret.value.pitch_variation.type = "number")

\* C1 witness: the transcoder could not be started, and a full record came back.
C1_Witness ==
    /\ Returned
    /\ promise.state = "rejected"
    /\ promise.error = "spawn"
    /\ ~ret.threw
    /\ ret.value.pitch = NA

\* An audio buffer of zero bytes.
IsEmptyBuffer(buffer) == buffer.present /\ TotalBytes(buffer) = 0

\* C2: with no audio buffer, or an empty one, the record has pitch = "N/A" and
\* pitch_variation = "N/A", and energy_score is round(10 * (min(1, wpm / 160) + 0) / 2):
\* the integer e with e - 1/2 <= 5 * min(1, wpm / 160) < e + 1/2; nothing is thrown.
C2_NoAudioEnergy ==
    (Returned /\ (~audioBuffer.present \/ IsEmptyBuffer(audioBuffer))) =>
        /\ ~ret.threw
        /\ ret.value.pitch = NA
        /\ ret.value.pitch_variation = NA
        /\ LET e == ret.value.energy_score
               a == IF ret.value.wpm < 16000 THEN ret.value.wpm ELSE 16000
           IN  32000 * e - 16000 <= 10 * a /\ 10 * a < 32000 * e + 16000

\* C2 witness: an empty buffer was passed, the speech is fast enough to score.
C2_Witness ==
    /\ Returned
    /\ IsEmptyBuffer(audioBuffer)
    /\ ret.value.wpm > 0
    /\ ret.value.energy_score >= 2

\* C3: in every record returned, disfluency_score and cadence_score are integers
\* in 1..10 and energy_score is an integer in 0..10.
C3_ScoreBounds ==
    Returned =>
        /\ ret.value.disfluency_score \in 1..10
        /\ ret.value.cadence_score \in 1..10
        /\ ret.value.energy_score \in 0..10

\* C3 witness: a transcript whose penalties add up to the whole of the ten points.
C3_Witness ==
    /\ Returned
    /\ transcript = TextChoppy
    /\ ret.value.disfluency_score = 1
    /\ ret.value.energy_score = 0

\* Empty, or whitespace only.
IsBlank(text) == \A k \in 1..Len(text) : IsWs(text[k])

\* C4: for an empty or whitespace-only transcript, with any segments, nothing is
\* thrown and wpm = 0, filler_word_total = 0 with an empty breakdown, and
\* repetition_score = 0 with no repetitive phrases.
C4_BlankDegradesToZero ==
    (Returned /\ IsBlank(transcript)) =>
        /\ ~ret.threw
        /\ ret.value.wpm = 0
        /\ ret.value.filler_word_total = 0
        /\ DOMAIN ret.value.filler_word_breakdown = {}
        /\ ret.value.repetition_score = 0
        /\ Len(ret.value.repetitive_phrases) = 0

\* C5: the composite scoring never starts (position L187), and so never is done,
\* before the pitch stage has settled and the filler counts, wpm and the
\* repetitions have been computed.
C5_ScoringAfterInputs ==
    (pc \in {"L187", "L238"} \/ scores.set) =>
        /\ PitchSettled
        /\ filler.set
        /\ wpm100.set
        /\ rep.set

\* C5 witness: the scores were computed after a pitch was found.
C5_Witness ==
    /\ scores.set
    /\ pc = "L238"
    /\ PitchFound
    /\ pitchInfo.found

Pronouns == {"i", "you", "he", "she", "we", "they", "it"}

Determiners ==
    {"a", "an", "the", "this", "that", "these", "those", "my", "your", "his", "her",
     "our", "their"}

\* The tokens of the model that end with "ing" or "ed": a word that does, after
\* any pieces run together with it.
EndsWithIngOrEd(token) ==
    LET lower == {LowerPiece(p) : p \in FillerPieces \ {" "}}
        prefixes == {""} \cup lower \cup {a \o b : a \in lower, b \in lower}
    IN  \E pre \in prefixes, w \in {"running", "tired"} : token = pre \o w

\* The positions (from 0) of the given word in the tokens.
PositionsOf(tokens, word) == {i \in 0..(Len(tokens) - 1) : tokens[i + 1] = word}

CountIn(breakdown, k) == IF k \in DOMAIN breakdown THEN breakdown[k] ELSE 0

LikeIsFiller(next) ==
    \/ next = ""
    \/ next \in Pronouns
    \/ next \in {"um", "uh", "so", "like"}
    \/ ~(next \in Determiners \/ EndsWithIngOrEd(next))

\* C6: a token "like" is counted as a filler unless the next token is a
\* determiner or possessive or ends with "ing" or "ed", and always when the next
\* token is absent, a pronoun or one of um, uh, so, like; "um I was like super
\* tired" gives total 2 and "I would like a coffee" counts no "like".
C6_LikeRule ==
    pc = "returned" =>
        /\ CountIn(filler.v.breakdown, "like")
               = LET tokens == SplitWs(toLowerCase(transcript))
                 IN  Cardinality({i \in PositionsOf(tokens, "like") :
                                     LikeIsFiller(NextToken(tokens, i))})
        /\ transcript = TextTired => filler.v.total = 2
        /\ transcript = TextCoffee => CountIn(filler.v.breakdown, "like") = 0

SoIsFiller(next) ==
    \/ next = ""
    \/ next \in Pronouns
    \/ next \in {"um", "uh", "like"}

\* C7: a token "so" is counted as a filler, under the key "so", exactly when
\* nothing, a pronoun or one of um, uh, like follows it.
C7_SoRule ==
    pc = "returned" =>
        CountIn(filler.v.breakdown, "so")
            = LET tokens == SplitWs(toLowerCase(transcript))
              IN  Cardinality({i \in PositionsOf(tokens, "so") :
                                  SoIsFiller(NextToken(tokens, i))})

\* The n-grams, n in 2..5, that start at two different positions of the tokens.
GramAt(tokens, i, n) == JoinSp(Slice(tokens, i, n))

OccursTwice(tokens) ==
    {GramAt(tokens, i, n) : <<i, n>> \in
        {x \in (0..Len(tokens)) \X (2..5) :
            /\ x[1] + x[2] <= Len(tokens)
            /\ \E j \in 0..(Len(tokens) - x[2]) :
                  j # x[1] /\ Slice(tokens, j, x[2]) = Slice(tokens, x[1], x[2])}}

\* C8: phrases is exactly the set of distinct n-grams (n in 2..5, over the
\* lower-cased whitespace-split tokens) occurring more than once, each listed
\* once; score is their number; with a repeated n-gram the shorter ones it
\* contains are listed too; "I just want to say I just want to help" lists
\* "i just want to".
C8_RepeatedPhrases ==
    pc = "returned" =>
        LET tokens == SplitWs(toLowerCase(transcript))
            listed == Range(rep.v.phrases)
        IN  /\ listed = OccursTwice(tokens)
            /\ Len(rep.v.phrases) = Cardinality(listed)
            /\ rep.v.score = Cardinality(OccursTwice(tokens))
            /\ \A i \in 0..Len(tokens), n \in 3..5 :
                  (i + n <= Len(tokens) /\ GramAt(tokens, i, n) \in listed) =>
                      \A m \in 2..(n - 1) : \A o \in 0..(n - m) :
                          GramAt(tokens, i + o, m) \in listed
            /\ transcript = TextJustWant =>
                  ("i just want to" \in listed /\ rep.v.score >= 1)

\* C8 witness: the repeated 4-gram of the example, with a 2-gram and a 3-gram in it.
C8_Witness ==
    /\ pc = "returned"
    /\ transcript = TextJustWant
    /\ {"i just want to", "just want to", "want to"} \subseteq Range(rep.v.phrases)
    /\ rep.v.score = 6

\* The words of a text: its non-empty whitespace-separated tokens.
TrueWordCount(text) == Cardinality({k \in 1..Len(SplitWs(text)) : SplitWs(text)[k] # ""})

\* C9: wpm is word_count / ((last.end - first.start) / 60) to two decimals (the
\* nearest hundredth: |wpm - exact| <= 1/200) when there is a segment and that
\* duration is strictly positive, and 0 in every other case; 150 words over
\* segments from 0 to 60 seconds give 150.
C9_WpmFormula ==
    Returned =>
        LET n == Len(segments)
            duration == IF n > 0 THEN segments[n].end - segments[1].start ELSE 0
            exactNum == TrueWordCount(transcript) * 60 * TimeScale * 100
            w == ret.value.wpm
        IN  /\ (n > 0 /\ duration > 0) =>
                  (2 * w * duration - duration <= 2 * exactNum
                   /\ 2 * exactNum < 2 * w * duration + duration)
            /\ ~(n > 0 /\ duration > 0) => w = 0
            /\ (transcript = Text150 /\ segments = SegsMinute) => w = 15000

\* The estimates of the complete frames of a clip.
FrameEstimates(buffer) ==
    {k \in 1..((TotalBytes(buffer) \div 2) \div frameSize) : buffer.est[k] # 0}

\* C10: once the transcoder has closed with status 0, the promise is resolved:
\* with null when no complete frame yields an estimate; otherwise with the median
\* that is the estimate at index floor(n / 2) of the n estimates of the complete
\* frames in ascending order (at most floor(n / 2) estimates are smaller, more
\* than floor(n / 2) are no larger), to two decimals; for 100, 200, 300, 400 it is 300.
C10_MedianOfFullFrames ==
    (ff = "closed" /\ ~spawnFails /\ audioBuffer.exit = 0) =>
        LET at == FrameEstimates(audioBuffer)
            n == Cardinality(at)
            est == audioBuffer.est
        IN  /\ promise.state = "resolved"
            /\ (n = 0) => promise.value = NullPitch
            /\ (n > 0) =>
                  /\ promise.value.found
                  /\ \E k \in at :
                        /\ promise.value.median = ToFixed2(est[k], FreqScale)
                        /\ Cardinality({j \in at : est[j] < est[k]}) <= n \div 2
                        /\ Cardinality({j \in at : est[j] <= est[k]}) > n \div 2
            /\ (audioBuffer = ClipFourFrames) => promise.value.median = 30000

\* C10 witness: the four estimates of the example, and 300 Hz reported.
C10_Witness ==
    /\ ff = "closed"
    /\ ~spawnFails
    /\ audioBuffer = ClipFourFrames
    /\ promise.state = "resolved"
    /\ promise.value.median = 30000

\* The promise of detectPitch is settled.
Settled == promise.state \in {"resolved", "rejected"}

\* The transcoder of this call does not end well: it cannot start or exits non-zero.
TranscoderFails == spawnFails \/ audioBuffer.exit # 0

\* C13: the promise of detectPitch resolves only once the transcoder has closed
\* with status 0, with the analysis of all the chunks delivered before the close
\* taken together (however the output was cut into chunks); when the transcoder
\* exits non-zero or cannot be started the promise is never resolved, and is
\* rejected once the process has closed; and a settled promise never changes,
\* in whatever order 'data', 'error' and 'close' arrive.
C13_SettlesOnceAfterClose ==
    /\ [](/\ promise.state = "resolved" =>
               /\ ff = "closed"
               /\ ~TranscoderFails
               /\ SumSeq(pcmChunks) = delivered
               /\ delivered = TotalBytes(audioBuffer)
               /\ promise = AnalysePcm(<<delivered>>, audioBuffer.est)
          /\ TranscoderFails => promise.state # "resolved"
          /\ (TranscoderFails /\ ff = "closed") => promise.state = "rejected")
    /\ [][Settled => promise' = promise]_vars

\* C13 witness: the output came in several chunks, and the pitch of all of it
\* was resolved after the close.
C13_Witness ==
    /\ ff = "closed"
    /\ Len(pcmChunks) >= 2
    /\ promise.state = "resolved"
    /\ promise.value.found

\* The request has been answered and the handler has ended.
Answered == hpc = "end"

\* The stages of a request that failed.
FileMissing == ~file

TranscriptionFailed == file /\ ~Truthy(result.transcript)

MetricsFailed == file /\ Truthy(result.transcript) /\ result.raw_metrics = JsNull

NarrationFailed == file /\ Truthy(result.transcript) /\ result.summary = JsNull

\* What the handler and the error middleware write to the console.
HandlerErrors ==
    {"Transcription error", "Metrics calculation error", "Tone analysis error",
     "Failed to transcribe video"}

\* C12: when a stage of a request has failed (no file, no transcript, the
\* metrics, the narration), the response of the request is a JSON body with an
\* error field, and an error has been logged.
C12_ErrorsAnsweredAndLogged ==
    (Answered /\ (FileMissing \/ TranscriptionFailed \/ MetricsFailed \/ NarrationFailed)) =>
        /\ Len(responses) = 1
        /\ "error" \in DOMAIN responses[1].body
        /\ \E k \in 1..Len(log) : log[k] \in HandlerErrors

\* C14: every request is answered exactly once; and when the transcription
\* succeeded and getRawMetrics threw, the chat completion was still requested,
\* so that unless that request fails itself summary, tone and feedback are set.
C14_StagesIndependent ==
    /\ Len(responses) <= 1
    /\ Answered =>
          /\ Len(responses) = 1
          /\ MetricsFailed =>
                /\ narrated = 1
                /\ narrator # "fails" =>
                      /\ result.summary # JsNull
                      /\ result.tone # JsNull
                      /\ result.feedback # JsNull

\* The locals of the first call, as a record like that of the second.
FirstCall ==
    [active |-> TRUE, pc |-> pc, words |-> words, filler |-> filler, wpm100 |-> wpm100,
     rep |-> rep, pitchInfo |-> pitchInfo, scores |-> scores, ret |-> ret, ff |-> ff,
     delivered |-> delivered, pcmChunks |-> pcmChunks, promise |-> promise]

\* C11: two calls of getRawMetrics on the same transcript, segments and audio,
\* the transcoder and the estimator being functions of the clip, return the
\* same record however their steps and their children's events interleave;
\* and no step of one call changes a local of the other.
C11_SameInputsSameRecord ==
    /\ [](/\ (pc = "done" /\ other.pc = "done") =>
               /\ ~ret.threw
               /\ ~other.ret.threw
               /\ ret.value = other.ret.value
          /\ (pc = other.pc /\ pc \in {"L185", "L187", "L238"}) =>
               pitchInfo = other.pitchInfo)
    /\ [][(other' # other => FirstCall' = FirstCall)
          /\ (FirstCall' # FirstCall => other' = other)]_vars

\* C11 witness: both calls have returned, with a pitch, their children having
\* delivered the output in different chunks.
C11_Witness ==
    /\ pc = "done"
    /\ other.pc = "done"
    /\ pcmChunks # other.pcmChunks
    /\ ret.value.pitch.type = "number"
    /\ ret.value = other.ret.value

=============================================================================
